---- MODULE Spec2Model ----
(***************************************************************************)
(* pysforce: the authenticators (auth.py) and the REST client SFClient     *)
(* (sfapi.py) with its `managed` re-authentication wrapper, the composite  *)
(* operations, the cached field-list lookups, close, and the               *)
(* page-following query generator.                                         *)
(*                                                                         *)
(* The remote service is the environment: every HTTP response (data plane  *)
(* and token endpoint) is an input drawn from a small set.  Each public    *)
(* operation of the client is one action; what it did on the wire is kept  *)
(* in `last` (the managed invocations it made, each with its event log).   *)
(***************************************************************************)
EXTENDS Integers, Sequences, FiniteSets, TLC

\* ---------------------------------------------------------------- bounds
\* transport handles (requests.Session objects) created in one run
MaxHandles == 2
\* pages the server serves for one SOQL statement
MaxPages == 3
\* records on one page
MaxPageLen == 2
\* record-list lengths tried above the batch limit
MaxOver == 1
\* direct field-list lookups of one run that the cache answers
MaxRepeats == 1
\* direct field-list lookups of one run that store an entry in the cache
MaxStored == 12

\* ------------------------------------------------------------- constants
\* sfapi.py: "if len(sobjects) > 200"
BatchLimit == 200

None == "None"
Iters == {"it1"}

VARIABLES
  auth,      \* the authenticator object: kind, authenticated, access_token, service_url, client
  sfclient,  \* the SFClient: "none" (not constructed) or "open" (holds auth)
  cache,     \* the lru_cache of sobject_field_list: entries [key, val], least recently used first
  recent,    \* history: the cache keys looked up successfully, least recently looked up first
  lookups,   \* history: how many direct field-list lookups stored an entry, and how many the cache answered
  gen,       \* the generator objects query() returned that the caller still holds
  last       \* the last completed public operation: what ran, what went on the wire, its outcome

vars == <<auth, sfclient, cache, recent, lookups, gen, last>>

\* ------------------------------------------------------------ environment
\* Responses of the data plane.  A 2xx response carries a document; the
\* others carry the service's error document.
Bodies == {"doc"}
ErrStatus == {401, 404}
Responses == {[status |-> 200, body |-> b] : b \in Bodies}
               \cup {[status |-> s, body |-> "errdoc"] : s \in ErrStatus}

\* Responses of the token endpoint: the JSON payload and the HTTP status.
\* A grant (a token and an instance url), a structured error, an HTTP-level
\* failure, and 2xx payloads lacking one of the two keys.
TokenResponses ==
  {[status |-> 200, error |-> FALSE, access_token |-> "tokB", instance_url |-> "urlB"],
   [status |-> 400, error |-> TRUE, access_token |-> None, instance_url |-> None],
   [status |-> 500, error |-> FALSE, access_token |-> None, instance_url |-> None],
   [status |-> 200, error |-> FALSE, access_token |-> None, instance_url |-> "urlB"],
   [status |-> 200, error |-> FALSE, access_token |-> "tokB", instance_url |-> None]}

\* One event of an operation's log.  A request names the transport handle
\* it went through (via) and the service url it was addressed to (base).
Ev(ev, what, target, status, via) ==
  [ev |-> ev, what |-> what, target |-> target, status |-> status, via |-> via,
   base |-> None]

Return(v) == [kind |-> "return", val |-> v]
Raise(e) == [kind |-> "raise", val |-> e]

\* ----------------------------------------------------------------- auth.py
is_authenticated(au) == au.authenticated

\* SFAuthenticator.construct: the fields are assigned in order, so a payload
\* lacking a key raises KeyError after the assignments before it.
construct(au, payload) ==
  IF payload.access_token = None
  THEN [auth |-> au, raised |-> "KeyError"]
  ELSE LET a1 == [au EXCEPT !.access_token = payload.access_token] IN
       IF payload.instance_url = None
       THEN [auth |-> a1, raised |-> "KeyError"]
       ELSE [auth |-> [a1 EXCEPT !.service_url = payload.instance_url,
                                 !.client = au.client + 1],
             raised |-> None]

OAuthJWT_authenticate(au, rsp) ==
  LET ev == <<Ev("token", "POST", <<"oauth2", "token">>, rsp.status, 0)>> IN
  IF rsp.error
  THEN [auth |-> au, raised |-> "Exception", log |-> ev]
  ELSE IF rsp.status # 200
  THEN [auth |-> au, raised |-> "HTTPError", log |-> ev]
  ELSE LET c == construct([au EXCEPT !.authenticated = TRUE], rsp) IN
       [auth |-> c.auth, raised |-> c.raised, log |-> ev]

\* OAuthPassword.authenticate: "super._authenticated = True" assigns to the
\* builtin type `super`, which raises TypeError before construct is reached.
OAuthPassword_authenticate(au, rsp) ==
  LET ev == <<Ev("token", "POST", <<"oauth2", "token">>, rsp.status, 0)>> IN
  IF rsp.error
  THEN [auth |-> au, raised |-> "Exception", log |-> ev]
  ELSE IF rsp.status # 200
  THEN [auth |-> au, raised |-> "HTTPError", log |-> ev]
  ELSE [auth |-> au, raised |-> "TypeError", log |-> ev]

\* What self._auth is after SFClient.close(): None.  Every attribute access
\* on it (service_url, client, authenticate) raises AttributeError.
NoAuth == [kind |-> "none", authenticated |-> FALSE, access_token |-> None,
           service_url |-> None, client |-> 0]

authenticate(au, rsp) ==
  IF au.kind = "none" THEN [auth |-> au, raised |-> "AttributeError", log |-> <<>>]
  ELSE IF au.kind = "jwt" THEN OAuthJWT_authenticate(au, rsp)
  ELSE OAuthPassword_authenticate(au, rsp)

\* ---------------------------------------------------------------- sfapi.py
\* The bodies of the wrapped methods.  Each takes the session in force and
\* the response the service gives to its (single) request, and returns the
\* requests it made and how it ended.
Http(method, target, au, rsp) ==
  [Ev("http", method, target, rsp.status, au.client) EXCEPT !.base = au.service_url]

\* self.client is None until construct() has built a transport handle (an
\* authenticator can report authenticated before that): self.client.get
\* then raises AttributeError and nothing is sent.
NoTransport(au) == au.client = 0
Unsent == [log |-> <<>>, out |-> Raise("AttributeError")]

\* a bug: a 404 is treated like every other error status
_http_get_no404(au, resource, rsp) ==
  LET log == <<Http("GET", resource, au, rsp)>> IN
  IF NoTransport(au) THEN Unsent
  ELSE IF rsp.status # 200 THEN [log |-> log, out |-> Raise("HTTPError")]
  ELSE [log |-> log, out |-> Return(rsp.body)]

_http_get(au, resource, rsp) ==
  LET log == <<Http("GET", resource, au, rsp)>> IN
  IF NoTransport(au) THEN Unsent
  ELSE IF rsp.status = 404 THEN [log |-> log, out |-> Return(None)]
  ELSE IF rsp.status # 200 THEN [log |-> log, out |-> Raise("HTTPError")]
  ELSE [log |-> log, out |-> Return(rsp.body)]

_http_post(au, fullurl, rsp) ==
  LET log == <<Http("POST", fullurl, au, rsp)>> IN
  IF NoTransport(au) THEN Unsent
  ELSE IF rsp.status # 200 THEN [log |-> log, out |-> Raise("HTTPError")]
  ELSE [log |-> log, out |-> Return(rsp.body)]

_http_patch(au, fullurl, rsp) ==
  LET log == <<Http("PATCH", fullurl, au, rsp)>> IN
  IF NoTransport(au) THEN Unsent
  ELSE IF rsp.status # 200 THEN [log |-> log, out |-> Raise("HTTPError")]
  ELSE [log |-> log, out |-> Return(rsp.body)]

\* update_record calls _http_patch(sobject_name, recid, user_params): one
\* positional argument more than _http_patch takes, so binding the
\* arguments raises TypeError before any statement of the body runs.
_http_patch_3(au, args, rsp) == [log |-> <<>>, out |-> Raise("TypeError")]

\* call: the urn is a string (a sequence of characters) or None.  There is
\* no raise_for_status: the body of whatever came back is returned.
Str(chars) == [none |-> FALSE, chars |-> chars]
NoneStr == [none |-> TRUE, chars |-> <<>>]
Urns == {NoneStr, Str(<<>>), Str(<<"/", "x">>), Str(<<"x">>)}
call(au, urn, rsp) ==
  IF urn.none \/ Len(urn.chars) = 0
  THEN [log |-> <<>>, out |-> Raise("ValueError")]
  ELSE LET u == IF urn.chars[1] = "/" THEN Tail(urn.chars) ELSE urn.chars IN
       IF NoTransport(au) THEN Unsent
       ELSE [log |-> <<Http("GET", u, au, rsp)>>, out |-> Return(rsp.body)]

record_count(au, where_filter, rsp) ==
  LET log == <<Http("GET", <<"query">>, au, rsp)>> IN
  IF NoTransport(au) THEN Unsent
  ELSE IF rsp.status # 200 THEN [log |-> log, out |-> Raise("HTTPError")]
  ELSE [log |-> log, out |-> Return(rsp.body)]

\* query is a generator function: calling it runs none of its body and
\* returns a generator object.
query(au, soql, rsp) == [log |-> <<>>, out |-> Return("generator")]

\* A wrapped call is a record naming the method and its argument.
Invoke(c, au, rsp) ==
  CASE c.fn = "_http_get" -> _http_get(au, c.arg, rsp)
    [] c.fn = "_http_post" -> _http_post(au, c.arg, rsp)
    [] c.fn = "_http_patch" -> _http_patch(au, c.arg, rsp)
    [] c.fn = "call" -> call(au, c.arg, rsp)
    [] c.fn = "record_count" -> record_count(au, c.arg, rsp)
    [] c.fn = "query" -> query(au, c.arg, rsp)
    [] c.fn = "_http_patch/3" -> _http_patch_3(au, c.arg, rsp)

\* managed(fn): try fn; on any exception authenticate() again, re-raise the
\* caught exception if the authenticator does not report authenticated, and
\* otherwise return whatever a second call of fn returns or raises.  An
\* exception of authenticate() itself is not caught.  `by` names the step
\* whose value or exception reaches the caller.
Attempt(c) == Ev("fn", c.fn, <<>>, 0, 0)
Ended(out) == Ev("end", IF out.kind = "return" THEN "return" ELSE out.val, <<>>, 0, 0)
AuthCall == Ev("authenticate", None, <<>>, 0, 0)
AuthEnded(re) ==
  Ev("authend",
     IF re.raised # None THEN re.raised
     ELSE IF is_authenticated(re.auth) THEN "ok" ELSE "unauthenticated",
     <<>>, 0, 0)

Tagged(out, by) == [kind |-> out.kind, val |-> out.val, by |-> by]

\* one attempt: the call of fn, the requests it made, how it ended
Tried(c, r) == <<Attempt(c)>> \o r.log \o <<Ended(r.out)>>

\* a bug: the caught exception is re-raised after a successful
\* re-authentication instead of calling fn again
managed_noretry(c, au, r1, a, r2) ==
  LET first == Invoke(c, au, r1) IN
  IF first.out.kind = "return"
  THEN [auth |-> au, fn |-> c.fn, log |-> Tried(c, first),
        out |-> Tagged(first.out, "attempt1")]
  ELSE LET re == authenticate(au, a)
           log1 == Tried(c, first) \o <<AuthCall>> \o re.log \o <<AuthEnded(re)>> IN
       IF re.raised # None
       THEN [auth |-> re.auth, fn |-> c.fn, log |-> log1,
             out |-> [kind |-> "raise", val |-> re.raised, by |-> "authenticate"]]
       ELSE [auth |-> re.auth, fn |-> c.fn, log |-> log1,
             out |-> Tagged(first.out, "attempt1")]

\* a bug: a failed second attempt is tried once more
managed_thrice(c, au, r1, a, r2) ==
  LET first == Invoke(c, au, r1) IN
  IF first.out.kind = "return"
  THEN [auth |-> au, fn |-> c.fn, log |-> Tried(c, first),
        out |-> Tagged(first.out, "attempt1")]
  ELSE LET re == authenticate(au, a)
           log1 == Tried(c, first) \o <<AuthCall>> \o re.log \o <<AuthEnded(re)>> IN
       IF re.raised # None
       THEN [auth |-> re.auth, fn |-> c.fn, log |-> log1,
             out |-> [kind |-> "raise", val |-> re.raised, by |-> "authenticate"]]
       ELSE IF ~is_authenticated(re.auth)
       THEN [auth |-> re.auth, fn |-> c.fn, log |-> log1,
             out |-> Tagged(first.out, "attempt1")]
       ELSE LET second == Invoke(c, re.auth, r2) IN
            IF second.out.kind = "return"
            THEN [auth |-> re.auth, fn |-> c.fn, log |-> log1 \o Tried(c, second),
                  out |-> Tagged(second.out, "attempt2")]
            ELSE [auth |-> re.auth, fn |-> c.fn,
                  log |-> log1 \o Tried(c, second) \o Tried(c, second),
                  out |-> Tagged(second.out, "attempt3")]

managed(c, au, r1, a, r2) ==
  LET first == Invoke(c, au, r1) IN
  IF first.out.kind = "return"
  THEN [auth |-> au, fn |-> c.fn, log |-> Tried(c, first),
        out |-> Tagged(first.out, "attempt1")]
  ELSE LET re == authenticate(au, a)
           log1 == Tried(c, first) \o <<AuthCall>> \o re.log \o <<AuthEnded(re)>> IN
       IF re.raised # None
       THEN [auth |-> re.auth, fn |-> c.fn, log |-> log1,
             out |-> [kind |-> "raise", val |-> re.raised, by |-> "authenticate"]]
       ELSE IF ~is_authenticated(re.auth)
       THEN [auth |-> re.auth, fn |-> c.fn, log |-> log1,
             out |-> Tagged(first.out, "attempt1")]
       ELSE LET second == Invoke(c, re.auth, r2) IN
            [auth |-> re.auth, fn |-> c.fn, log |-> log1 \o Tried(c, second),
             out |-> Tagged(second.out, "attempt2")]

\* What `last` keeps of one managed invocation.
Inv(m) == [fn |-> m.fn, log |-> m.log, out |-> m.out]

\* The responses a wrapped call consumes: the token endpoint is asked only
\* when the first attempt raised, and the service a second time only when
\* the re-authentication went through.
NoToken == [status |-> 0, error |-> FALSE, access_token |-> None, instance_url |-> None]
NoResponse == [status |-> 0, body |-> None]

TokenInputs(c, au, r1) ==
  IF Invoke(c, au, r1).out.kind = "return" THEN {NoToken} ELSE TokenResponses

RetryInputs(c, au, r1, a) ==
  IF Invoke(c, au, r1).out.kind = "return" THEN {NoResponse}
  ELSE LET re == authenticate(au, a) IN
       IF re.raised # None \/ ~is_authenticated(re.auth) THEN {NoResponse}
       ELSE Responses

\* Every way one invocation of a wrapped method can go from session `au`,
\* within the bound on transport handles.
ManagedRuns(c, au) ==
  LET all == UNION {UNION {{managed(c, au, r1, a, r2) :
                               r2 \in RetryInputs(c, au, r1, a)} :
                           a \in TokenInputs(c, au, r1)} :
                    r1 \in Responses} IN
  {m \in all : m.auth.client <= MaxHandles}

\* ------------------------------------------------- composite operations
\* insert_records / update_records: the two length checks, then one POST
\* (insert) or PATCH (update) of the zipped payload to composite/sobjects.
\* sobject_type is a string or a list of strings.
TypeStr(t) == [isstr |-> TRUE, str |-> t, list |-> <<>>]
TypeList(l) == [isstr |-> FALSE, str |-> "", list |-> l]

Body(out) == [kind |-> out.kind, val |-> out.val, by |-> "body"]

\* a bug: the size of the batch is not checked
composite_nolimit(fn, au, sobject_type, sobjects) ==
  LET types == IF sobject_type.isstr
               THEN [i \in 1..Len(sobjects) |-> sobject_type.str]
               ELSE sobject_type.list IN
  IF Len(types) # Len(sobjects)
  THEN {[auth |-> au, calls |-> <<>>, out |-> Body(Raise("ValueError"))]}
  ELSE {[auth |-> m.auth, calls |-> <<Inv(m)>>, out |-> m.out] :
          m \in ManagedRuns([fn |-> fn, arg |-> <<"composite", "sobjects">>], au)}

composite(fn, au, sobject_type, sobjects) ==
  IF Len(sobjects) > BatchLimit
  THEN {[auth |-> au, calls |-> <<>>, out |-> Body(Raise("ValueError"))]}
  ELSE LET types == IF sobject_type.isstr
                    THEN [i \in 1..Len(sobjects) |-> sobject_type.str]
                    ELSE sobject_type.list IN
       IF Len(types) # Len(sobjects)
       THEN {[auth |-> au, calls |-> <<>>, out |-> Body(Raise("ValueError"))]}
       ELSE IF au.kind = "none"
       THEN {[auth |-> au, calls |-> <<>>, out |-> Body(Raise("AttributeError"))]}
       ELSE {[auth |-> m.auth, calls |-> <<Inv(m)>>, out |-> m.out] :
               m \in ManagedRuns([fn |-> fn, arg |-> <<"composite", "sobjects">>], au)}

insert_records(au, sobject_type, sobjects) ==
  composite("_http_post", au, sobject_type, sobjects)

update_records(au, sobject_type, sobjects) ==
  composite("_http_patch", au, sobject_type, sobjects)

\* ------------------------------------------------------------ schema cache
\* lru_cache(maxsize=10) around sobject_field_list.
maxsize == 10

SObjects == {"Account"}
\* str.lower on the names that occur: sobject names and field names
lower(name) ==
  CASE name = "Account" -> "account"
    [] name = "Name" -> "name"
    [] name = "Id" -> "id"
    [] name = "Phone" -> "phone"
    [] OTHER -> name

\* The field names a describe document lists, in the document's order, and
\* the order of names that list.sort(key=itemgetter('name')) sorts by.
Fields(body) == IF body = "doc" THEN <<"Name", "Id", "Phone">> ELSE <<>>
NameRank(f) == CASE f = "Id" -> 1 [] f = "Name" -> 2 [] f = "Phone" -> 3

RECURSIVE SortByName(_)
SortByName(fl) ==
  IF Len(fl) <= 1 THEN fl
  ELSE LET m == CHOOSE i \in 1..Len(fl) :
                  \A j \in 1..Len(fl) : NameRank(fl[i]) <= NameRank(fl[j])
           rest == [k \in 1..(Len(fl) - 1) |-> IF k < m THEN fl[k] ELSE fl[k + 1]] IN
       <<fl[m]>> \o SortByName(rest)

CacheHit(ch, key) == \E i \in 1..Len(ch) : ch[i].key = key
CacheIndex(ch, key) == CHOOSE i \in 1..Len(ch) : ch[i].key = key
Without(ch, i) == [k \in 1..(Len(ch) - 1) |-> IF k < i THEN ch[k] ELSE ch[k + 1]]
\* a bug: a hit leaves the order of the entries as it is (first in, first out)
CacheTouch_fifo(ch, key) == ch

\* a hit moves the entry to the most-recently-used end
CacheTouch(ch, key) ==
  LET i == CacheIndex(ch, key) IN Append(Without(ch, i), ch[i])
\* a miss stores the new entry, evicting the least recently used when full
CachePut(ch, key, val) ==
  LET kept == IF Len(ch) >= maxsize THEN Tail(ch) ELSE ch IN
  Append(kept, [key |-> key, val |-> val])

\* sobject_field_list(name), cached on the name as given: one describe GET
\* on a miss; a 404 makes response['fields'] a TypeError; nothing is cached
\* when the call raises.
sobject_field_list(au, ch, name) ==
  IF CacheHit(ch, name)
  THEN {[auth |-> au, cache |-> CacheTouch(ch, name), calls |-> <<>>,
         out |-> Body(Return("fields")), fields |-> ch[CacheIndex(ch, name)].val,
         key |-> name]}
  ELSE {IF m.out.kind = "raise"
        THEN [auth |-> m.auth, cache |-> ch, calls |-> <<Inv(m)>>,
              out |-> m.out, fields |-> <<>>, key |-> None]
        ELSE IF m.out.val = None
        THEN [auth |-> m.auth, cache |-> ch, calls |-> <<Inv(m)>>,
              out |-> Body(Raise("TypeError")), fields |-> <<>>, key |-> None]
        ELSE [auth |-> m.auth,
              cache |-> CachePut(ch, name, SortByName(Fields(m.out.val))),
              calls |-> <<Inv(m)>>, out |-> Body(Return("fields")),
              fields |-> SortByName(Fields(m.out.val)), key |-> name] :
          m \in ManagedRuns([fn |-> "_http_get",
                             arg |-> <<"sobjects", lower(name), "describe">>], au)}

\* sobject_field_map(name): the cached list of name.lower(), as a dict
\* keyed by the lower-cased field names (kept here in the list's order).
dict(fields) == [i \in DOMAIN fields |-> [key |-> lower(fields[i]), name |-> fields[i]]]
sobject_field_map(au, ch, name) ==
  {[auth |-> r.auth, cache |-> r.cache, calls |-> r.calls, out |-> r.out,
    fields |-> r.fields, key |-> r.key, map |-> dict(r.fields)] :
     r \in sobject_field_list(au, ch, lower(name))}

\* fetch_record(sobject_name, recid, field_list): the field list defaults
\* to the keys of the field map; then one GET of the record.
FieldLists == {NoneStr, Str(<<"Id">>)}
fetch_record(au, ch, name, field_list) ==
  LET pre == IF field_list.none THEN sobject_field_map(au, ch, name)
             ELSE {[auth |-> au, cache |-> ch, calls |-> <<>>,
                    out |-> Body(Return("fields")), fields |-> field_list.chars,
                    key |-> None, map |-> <<>>]} IN
  UNION {IF f.out.kind = "raise"
         THEN {[auth |-> f.auth, cache |-> f.cache, calls |-> f.calls, out |-> f.out,
                key |-> f.key]}
         ELSE {[auth |-> m.auth, cache |-> f.cache,
                calls |-> f.calls \o <<Inv(m)>>, out |-> m.out, key |-> f.key] :
                 m \in ManagedRuns([fn |-> "_http_get",
                                    arg |-> <<"sobjects", name, "recid">>], f.auth)} :
         f \in pre}

\* ------------------------------------------------------ query generator
\* The body of query(), run by the consumer's next().  A generator is
\* suspended before its first statement ("created") or at one of the two
\* yields ("page": record idx of the current page was yielded).
NoGen == [pc |-> "none", recs |-> <<>>, idx |-> 0, next |-> "absent",
          served |-> <<>>, yielded |-> <<>>, wire |-> <<>>]
\* a bug: the first page is requested when query() is called
NewGen_eager ==
  [NoGen EXCEPT !.pc = "page", !.recs = <<<<1, 1>>>>,
                !.served = <<[recs |-> <<<<1, 1>>>>, next |-> "absent"]>>,
                !.wire = <<Ev("http", "GET", <<"query">>, 200, 1)>>]

NewGen == [NoGen EXCEPT !.pc = "created"]

\* The service's answer to a page request when k pages were served before:
\* a page of n records with its nextRecordsUrl (a url, null, or no such
\* key), or an error document.  The chain of pages is finite.
Cursors(k) == IF k + 1 < MaxPages THEN {"url", "null", "absent"} ELSE {"null", "absent"}
PageResponses(k) ==
  {[status |-> 200, n |-> n, next |-> c] : n \in 0..MaxPageLen, c \in Cursors(k)}
  \cup {[status |-> s, n |-> 0, next |-> "absent"] : s \in ErrStatus}

\* the records of page p, as the service numbers them
PageRecs(p, n) == [i \in 1..n |-> <<p, i>>]

Yield(r) == [kind |-> "yield", val |-> None, rec |-> r]
Stop == [kind |-> "stop", val |-> None, rec |-> <<>>]
GenRaise(e) == [kind |-> "raise", val |-> e, rec |-> <<>>]

\* data = json.loads(payload); recs = data['records']
Load(g, rsp, w) ==
  LET recs == PageRecs(Len(g.served) + 1, rsp.n) IN
  [g EXCEPT !.recs = recs, !.idx = 0, !.next = rsp.next, !.wire = w,
            !.served = Append(g.served, [recs |-> recs, next |-> rsp.next])]

\* yield recs[i]
YieldAt(g, i) ==
  [gen |-> [g EXCEPT !.pc = "page", !.idx = i, !.yielded = Append(g.yielded, g.recs[i])],
   out |-> Yield(g.recs[i])]

Finish(g) == [gen |-> [g EXCEPT !.pc = "done"], out |-> Stop]
Fail(g, w, e) == [gen |-> [g EXCEPT !.pc = "failed", !.wire = w], out |-> GenRaise(e)]

\* while 'nextRecordsUrl' in data: a null url breaks, a url is fetched
\* with no raise_for_status, so an error document reaches data['records'],
\* which raises.
\* a bug: nextRecordsUrl is never followed
AfterPage_stopfirst(g, au) == {Finish(g)}

RECURSIVE AfterPage(_, _)
AfterPage(g, au) ==
  IF g.next = "absent" THEN {Finish(g)}
  ELSE IF g.next = "null" THEN {Finish(g)}
  ELSE IF NoTransport(au) THEN {Fail(g, g.wire, "AttributeError")}
  ELSE UNION {LET w == Append(g.wire, Http("GET", <<"nextRecordsUrl">>, au, rsp)) IN
              IF rsp.status # 200 THEN {Fail(g, w, "TypeError")}
              ELSE LET g1 == Load(g, rsp, w) IN
                   IF Len(g1.recs) > 0 THEN {YieldAt(g1, 1)} ELSE AfterPage(g1, au) :
              rsp \in PageResponses(Len(g.served))}

\* the first request, with raise_for_status
FirstPage(g, au) ==
  IF NoTransport(au) THEN {Fail(g, g.wire, "AttributeError")}
  ELSE
  UNION {LET w == Append(g.wire, Http("GET", <<"query">>, au, rsp)) IN
         IF rsp.status # 200 THEN {Fail(g, w, "HTTPError")}
         ELSE LET g1 == Load(g, rsp, w) IN
              IF Len(g1.recs) > 0 THEN {YieldAt(g1, 1)} ELSE AfterPage(g1, au) :
         rsp \in PageResponses(0)}

\* next(generator): run to the next yield, to the end, or to an exception
GenNext(g, au) ==
  IF g.pc = "created" THEN FirstPage(g, au)
  ELSE IF g.pc = "page"
  THEN IF g.idx < Len(g.recs) THEN {YieldAt(g, g.idx + 1)} ELSE AfterPage(g, au)
  ELSE {[gen |-> g, out |-> Stop]}

\* a bug: query_one exhausts the generator before returning its first record
RECURSIVE Drain(_, _)
Drain(g, au) ==
  UNION {IF r.out.kind = "yield" THEN Drain(r.gen, au) ELSE {r} : r \in GenNext(g, au)}

query_one_drain(au) ==
  {[auth |-> m.auth, calls |-> <<Inv(m)>>, gen |-> r.gen,
    out |-> IF r.out.kind = "raise" THEN Body(Raise(r.out.val))
            ELSE IF Len(r.gen.yielded) > 0 THEN Body(Return("record"))
            ELSE Body(Return(None)),
    rec |-> IF r.out.kind # "raise" /\ Len(r.gen.yielded) > 0
            THEN r.gen.yielded[1] ELSE <<>>] :
     m \in ManagedRuns([fn |-> "query", arg |-> <<"soql">>], au),
     r \in Drain(NewGen, au)}

\* query_one: the first next() of a fresh generator; the generator is then
\* dropped, which closes it where it is suspended.
query_one(au) ==
  {[auth |-> m.auth, calls |-> <<Inv(m)>>,
    gen |-> IF r.gen.pc = "page" THEN [r.gen EXCEPT !.pc = "closed"] ELSE r.gen,
    out |-> IF r.out.kind = "yield" THEN Body(Return("record"))
            ELSE IF r.out.kind = "stop" THEN Body(Return(None))
            ELSE Body(Raise(r.out.val)),
    rec |-> r.out.rec] :
     m \in ManagedRuns([fn |-> "query", arg |-> <<"soql">>], au),
     r \in GenNext(NewGen, au)}

\* ------------------------------------------------------------------ state
AuthKinds == {"jwt", "password"}

Last(op, arg, calls, out, rec, g) ==
  [op |-> op, arg |-> arg, calls |-> calls, out |-> out, rec |-> rec, gen |-> g]

Init ==
  /\ auth \in {[kind |-> k, authenticated |-> FALSE, access_token |-> None,
                service_url |-> None, client |-> 0] : k \in AuthKinds}
  /\ sfclient = "none"
  /\ cache = <<>>
  /\ recent = <<>>
  /\ lookups = [stored |-> 0, repeated |-> 0]
  /\ gen = [i \in Iters |-> NoGen]
  /\ last = Last("init", None, <<>>, Body(Return(None)), <<>>, NoGen)

\* The caller runs auth.authenticate() itself (before a client exists, or
\* at any time after).
Authenticate ==
  \E a \in TokenResponses :
    LET re == authenticate(auth, a) IN
    /\ re.auth.client <= MaxHandles
    /\ auth' = re.auth
    /\ last' = Last("authenticate", a, <<>>,
                    IF re.raised = None THEN Body(Return(None))
                    ELSE Body(Raise(re.raised)), <<>>, NoGen)
    /\ UNCHANGED <<sfclient, cache, recent, lookups, gen>>

\* SFClient.__init__: an authenticator that does not report authenticated
\* is refused, and no client comes to exist.
\* a bug: the authenticator is taken unchecked
SFClient_init_unchecked(au) == [client |-> "open", out |-> Body(Return(None))]

SFClient_init(au) ==
  IF ~is_authenticated(au)
  THEN [client |-> "none", out |-> Body(Raise("Exception"))]
  ELSE [client |-> "open", out |-> Body(Return(None))]

\* SFClient(auth)
NewClient ==
  LET c == SFClient_init(auth) IN
  /\ sfclient = "none"
  /\ sfclient' = c.client
  /\ last' = Last("SFClient", None, <<>>, c.out, <<>>, NoGen)
  /\ UNCHANGED <<auth, cache, recent, lookups, gen>>

\* self._auth: the authenticator the client was built on, None once the
\* client is closed.  A closed client's operations cannot reach the
\* authenticator, which stays as it is.
_auth == IF sfclient = "closed" THEN NoAuth ELSE auth
Constructed == sfclient \in {"open", "closed"}
Kept(a) == IF sfclient = "closed" THEN auth ELSE a

\* SFClient.close
Close ==
  /\ Constructed
  /\ sfclient' = "closed"
  /\ last' = Last("close", None, <<>>, Body(Return(None)), <<>>, NoGen)
  /\ UNCHANGED <<auth, cache, recent, lookups, gen>>

\* A public operation that is one wrapped method.
Wrapped(op, c) ==
  \E m \in ManagedRuns(c, _auth) :
    /\ Constructed
    /\ auth' = Kept(m.auth)
    /\ last' = Last(op, c.arg, <<Inv(m)>>, m.out, <<>>, NoGen)
    /\ UNCHANGED <<sfclient, cache, recent, lookups, gen>>

Call == \E urn \in Urns : Wrapped("call", [fn |-> "call", arg |-> urn])

RecordCount ==
  \E w \in {None, "filter"} : Wrapped("record_count", [fn |-> "record_count", arg |-> w])

SObjectSchema ==
  Wrapped("sobject_schema", [fn |-> "_http_get", arg |-> <<"sobjects", "Account", "describe">>])

\* update_record(sobject_name, recid, user_params): nothing is returned
update_record(au) ==
  {[auth |-> m.auth, calls |-> <<Inv(m)>>,
    out |-> IF m.out.kind = "raise" THEN m.out ELSE Body(Return(None))] :
     m \in ManagedRuns([fn |-> "_http_patch/3", arg |-> <<"Account", "recid">>], au)}

UpdateRecord ==
  \E r \in update_record(_auth) :
    /\ Constructed
    /\ auth' = Kept(r.auth)
    /\ last' = Last("update_record", None, r.calls, r.out, <<>>, NoGen)
    /\ UNCHANGED <<sfclient, cache, recent, lookups, gen>>

\* insert_record: the url is built from self._auth.service_url, then one
\* POST; data['id'] if data else None
insert_record(au) ==
  IF au.kind = "none"
  THEN {[auth |-> au, calls |-> <<>>, out |-> Body(Raise("AttributeError"))]}
  ELSE
  {[auth |-> m.auth, calls |-> <<Inv(m)>>,
    out |-> IF m.out.kind = "raise" THEN m.out
            ELSE Body(Return(IF m.out.val = None THEN None ELSE "id"))] :
     m \in ManagedRuns([fn |-> "_http_post", arg |-> <<"sobjects", "Account">>], au)}

InsertRecord ==
  \E r \in insert_record(_auth) :
    /\ Constructed
    /\ auth' = Kept(r.auth)
    /\ last' = Last("insert_record", None, r.calls, r.out, <<>>, NoGen)
    /\ UNCHANGED <<sfclient, cache, recent, lookups, gen>>

\* The record lists and type arguments tried: lengths around 0 and around
\* the batch limit, types a string or a list one shorter, equal or longer.
BatchLens == {1, BatchLimit} \cup {BatchLimit + k : k \in 1..MaxOver}
TypeArgs(n) ==
  {TypeStr("Account")}
  \cup {TypeList([i \in 1..k |-> "Account"]) : k \in {n - 1, n, n + 1}}

Composite(op) ==
  \E n \in BatchLens : \E st \in TypeArgs(n) :
    \E r \in IF op = "insert_records"
             THEN insert_records(_auth, st, [i \in 1..n |-> "rec"])
             ELSE update_records(_auth, st, [i \in 1..n |-> "rec"]) :
      /\ Constructed
      /\ auth' = Kept(r.auth)
      /\ last' = Last(op, [n |-> n, isstr |-> st.isstr, tn |-> Len(st.list)],
                      r.calls, r.out, <<>>, NoGen)
      /\ UNCHANGED <<sfclient, cache, recent, lookups, gen>>

InsertRecords == Composite("insert_records")
UpdateRecords == Composite("update_records")

\* history of the lookups: a key looked up successfully becomes the most
\* recent one
Looked(rc, key) ==
  IF key = None THEN rc
  ELSE Append(SelectSeq(rc, LAMBDA k : k # key), key)

FetchRecord ==
  \E name \in SObjects, fl \in FieldLists :
    \E r \in fetch_record(_auth, cache, name, fl) :
      /\ Constructed
      /\ auth' = Kept(r.auth)
      /\ cache' = r.cache
      /\ recent' = Looked(recent, r.key)
      /\ last' = Last("fetch_record", fl, r.calls, r.out, <<>>, NoGen)
      /\ UNCHANGED <<sfclient, lookups, gen>>

\* query(soql): the wrapper's call returns the generator object
Query(i) ==
  \E m \in ManagedRuns([fn |-> "query", arg |-> <<"soql">>], _auth) :
    /\ Constructed
    /\ gen[i].pc \in {"none", "done", "failed", "closed"}
    /\ auth' = Kept(m.auth)
    /\ gen' = [gen EXCEPT ![i] = NewGen]
    /\ last' = Last("query", i, <<Inv(m)>>, m.out, <<>>, NewGen)
    /\ UNCHANGED <<sfclient, cache, recent, lookups>>

\* The session a resumed generator sends its next request with: the frame
\* holds `self`, and self.client and self._auth.service_url are evaluated
\* when the request is made.
\* a bug: the generator keeps the handle and url of its first request
ReadSession_captured(g, au) ==
  IF g.wire = <<>> THEN au
  ELSE [au EXCEPT !.client = g.wire[1].via, !.service_url = g.wire[1].base]

ReadSession(g, au) == au

\* next(it) by the consumer of the generator
Advance(i) ==
  \E r \in GenNext(gen[i], ReadSession(gen[i], _auth)) :
    /\ Constructed
    /\ gen[i].pc \in {"created", "page"}
    /\ gen' = [gen EXCEPT ![i] = r.gen]
    /\ last' = Last("next", i, <<>>, Body(r.out), r.out.rec, r.gen)
    /\ UNCHANGED <<auth, sfclient, cache, recent, lookups>>

\* the consumer drops a generator it has not exhausted
Abandon(i) ==
  /\ gen[i].pc \in {"created", "page"}
  /\ gen' = [gen EXCEPT ![i].pc = "closed"]
  /\ last' = Last("drop", i, <<>>, Body(Return(None)), <<>>, gen'[i])
  /\ UNCHANGED <<auth, sfclient, cache, recent, lookups>>

QueryOne ==
  \E r \in query_one(_auth) :
    /\ Constructed
    /\ auth' = Kept(r.auth)
    /\ last' = Last("query_one", None, r.calls, r.out, r.rec, r.gen)
    /\ UNCHANGED <<sfclient, cache, recent, lookups, gen>>

\* The state after the caller authenticated with a certificate (the grant
\* tokA, urlA) and constructed the client on that authenticator.
InitOpen ==
  /\ auth = [kind |-> "jwt", authenticated |-> TRUE, access_token |-> "tokA",
             service_url |-> "urlA", client |-> 1]
  /\ sfclient = "open"
  /\ cache = <<>>
  /\ recent = <<>>
  /\ lookups = [stored |-> 0, repeated |-> 0]
  /\ gen = [i \in Iters |-> NoGen]
  /\ last = Last("SFClient", None, <<>>, Body(Return(None)), <<>>, NoGen)

\* Every public operation that runs to completion within the call: the
\* authenticator, the client's constructor, the wrapped methods, the
\* composite operations, fetch_record and query_one.
Next ==
  \/ Authenticate
  \/ NewClient
  \/ Call
  \/ RecordCount
  \/ SObjectSchema
  \/ InsertRecord
  \/ UpdateRecord
  \/ InsertRecords
  \/ UpdateRecords
  \/ FetchRecord
  \/ QueryOne
  \/ Close

Spec == Init /\ [][Next]_vars

\* ------------------------------------------------------- schema lookups
\* The sobject names the caller looks up, in the order in which it comes to
\* use them: one more name than the cache has room for.
SchemaNames ==
  <<"Account", "account", "contact", "lead", "opportunity", "case",
    "task", "event", "user", "asset", "order">>
Ranks ==
  [name \in {SchemaNames[i] : i \in DOMAIN SchemaNames} |->
     CHOOSE i \in DOMAIN SchemaNames : SchemaNames[i] = name]
Rank(name) == Ranks[name]
InUse(ch, key) ==
  LET rk == Rank(key) IN
  \/ rk = 1
  \/ \E i \in DOMAIN ch : Rank(ch[i].key) + 1 >= rk
\* The caller comes back to a name it has looked up once the cache is full,
\* where the order of use decides what is evicted.
Timely(ch, key) == CacheHit(ch, key) => Len(ch) = maxsize

\* The describe requests of these lookups are answered 200: no lookup leads
\* to a token exchange, and the session stays as it is.
Served(r) ==
  \A k \in DOMAIN r.calls :
    \A j \in DOMAIN r.calls[k].log :
      /\ r.calls[k].log[j].ev # "token"
      /\ r.calls[k].log[j].ev = "http" => r.calls[k].log[j].status = 200

\* The caller's lookups so far: one the cache answers is a repeat, one that
\* comes back with a described field list stored an entry.
Counted(lk, ch, r) ==
  [stored |-> lk.stored + (IF r.key # None /\ r.calls # <<>> THEN 1 ELSE 0),
   repeated |-> lk.repeated + (IF r.key # None /\ r.calls = <<>> THEN 1 ELSE 0)]
Within(lk) == lk.stored <= MaxStored /\ lk.repeated <= MaxRepeats

\* client.sobject_field_list(name)
SObjectFieldList ==
  \E i \in DOMAIN SchemaNames :
    LET name == SchemaNames[i] IN
    /\ Constructed
    /\ InUse(cache, name)
    /\ Timely(cache, name)
    /\ \E r \in sobject_field_list(_auth, cache, name) :
      /\ Served(r)
      /\ Within(Counted(lookups, cache, r))
      /\ auth' = Kept(r.auth)
      /\ cache' = r.cache
      /\ recent' = Looked(recent, r.key)
      /\ lookups' = Counted(lookups, cache, r)
      /\ last' = Last("sobject_field_list", name, r.calls, r.out, r.fields, NoGen)
      /\ UNCHANGED <<sfclient, gen>>

\* client.sobject_field_map(name)
SObjectFieldMap ==
  \E i \in DOMAIN SchemaNames :
    LET name == SchemaNames[i] IN
    /\ Constructed
    /\ InUse(cache, lower(name))
    /\ Timely(cache, lower(name))
    /\ \E r \in sobject_field_map(_auth, cache, name) :
      /\ Served(r)
      /\ Within(Counted(lookups, cache, r))
      /\ auth' = Kept(r.auth)
      /\ cache' = r.cache
      /\ recent' = Looked(recent, r.key)
      /\ lookups' = Counted(lookups, cache, r)
      /\ last' = Last("sobject_field_map", name, r.calls, r.out, r.map, NoGen)
      /\ UNCHANGED <<sfclient, gen>>

\* The field-list lookups of a client, and its close.
NextSchema ==
  \/ SObjectFieldList
  \/ SObjectFieldMap
  \/ Close

SpecSchema == InitOpen /\ [][NextSchema]_vars

\* The generators of query(), held and advanced by the caller of an open
\* client.
NextQuery ==
  \/ \E i \in Iters : Query(i)
  \/ \E i \in Iters : Advance(i)
  \/ \E i \in Iters : Abandon(i)

SpecQuery == InitOpen /\ [][NextQuery]_vars

\* Two generators of separate query() calls, advanced by their consumers in
\* any order while the caller also runs a wrapped operation
\* (sobject_schema) that may re-authenticate.  Here every query has the
\* same result set, MaxPages whole pages, and every page request is
\* answered 200; the other shapes of a result set are SpecQuery's.
Pair == {"it1", "it2"}

WholePages(g) ==
  /\ \A k \in DOMAIN g.wire : g.wire[k].status = 200
  /\ \A k \in DOMAIN g.served :
       /\ Len(g.served[k].recs) = MaxPageLen
       /\ k < MaxPages => g.served[k].next = "url"

InitPair ==
  /\ auth = [kind |-> "jwt", authenticated |-> TRUE, access_token |-> "tokA",
             service_url |-> "urlA", client |-> 1]
  /\ sfclient = "open"
  /\ cache = <<>>
  /\ recent = <<>>
  /\ lookups = [stored |-> 0, repeated |-> 0]
  /\ gen = [i \in Pair |-> NoGen]
  /\ last = Last("SFClient", None, <<>>, Body(Return(None)), <<>>, NoGen)

Resume(i) == Advance(i) /\ WholePages(gen'[i])

NextPair ==
  \/ \E i \in Pair : Query(i)
  \/ \E i \in Pair : Resume(i)
  \/ SObjectSchema

SpecPair == InitPair /\ [][NextPair]_vars

\* ========================================================== properties
\* What a log shows of one invocation of a wrapped method.
Where(log, ev) == {i \in DOMAIN log : log[i].ev = ev}
Attempts(v) == Cardinality(Where(v.log, "fn"))
AuthCalls(v) == Cardinality(Where(v.log, "authenticate"))
Requests(log) == Where(log, "http")
TokenRequests(log) == Where(log, "token")
\* how the n-th attempt ended ("return" or the exception), None if there was none
EndOf(v, n) ==
  IF Cardinality(Where(v.log, "end")) < n THEN None
  ELSE LET i == CHOOSE i \in Where(v.log, "end") :
                  Cardinality({j \in Where(v.log, "end") : j <= i}) = n IN
       v.log[i].what
FirstRaised(v) == EndOf(v, 1) \notin {None, "return"}
Reauthenticated(v) == \E i \in Where(v.log, "authend") : v.log[i].what = "ok"
Invocations == {last.calls[k] : k \in DOMAIN last.calls}

\* C1: in every invocation of a wrapped method whose first attempt raised
\* and whose authenticate() then succeeded, the method ran exactly twice,
\* authenticate() ran exactly once, and the caller gets what the second
\* attempt returned or raised.
C1_RetryAfterReauth ==
  \A v \in Invocations :
    (FirstRaised(v) /\ Reauthenticated(v)) =>
      /\ Attempts(v) = 2
      /\ AuthCalls(v) = 1
      /\ v.log[Len(v.log)].ev = "end"
      /\ v.out.by = "attempt2"
      /\ EndOf(v, 2) = (IF v.out.kind = "return" THEN "return" ELSE v.out.val)

C1_Witness ==
  \E v \in Invocations :
    /\ v.fn = "_http_get"
    /\ FirstRaised(v) /\ Reauthenticated(v)
    /\ v.out.kind = "return" /\ v.out.val = "doc"

\* C2: a wrapped method that ends in an error after its first attempt
\* raised hands the caller the first attempt's error.
C2_OriginalError ==
  \A v \in Invocations :
    (FirstRaised(v) /\ v.out.kind = "raise") =>
      (v.out.by = "attempt1" /\ v.out.val = EndOf(v, 1))

\* C3: one invocation of a wrapped method tries the method at most twice
\* and authenticates at most once; authenticate() follows a failed first
\* attempt and nothing else; the second attempt follows a successful
\* authenticate(); a failed second attempt is the end of the invocation.
C3_AtMostOneRetry ==
  \A v \in Invocations :
    /\ Attempts(v) <= 2
    /\ AuthCalls(v) <= 1
    /\ v.log[1].ev = "fn"
    /\ \A i \in Where(v.log, "authenticate") :
         /\ v.log[i - 1].ev = "end" /\ v.log[i - 1].what # "return"
         /\ Cardinality({j \in Where(v.log, "fn") : j < i}) = 1
    /\ EndOf(v, 1) = "return" => (AuthCalls(v) = 0 /\ Attempts(v) = 1)
    /\ \A i \in Where(v.log, "fn") :
         i > 1 => (v.log[i - 1].ev = "authend" /\ v.log[i - 1].what = "ok")
    /\ EndOf(v, 2) \notin {None, "return"} =>
         /\ v.log[Len(v.log)].ev = "end"
         /\ Cardinality(Where(v.log, "end")) = 2
         /\ v.out.kind = "raise" /\ v.out.val = EndOf(v, 2)

C3_Witness ==
  \E v \in Invocations :
    /\ Attempts(v) = 2 /\ AuthCalls(v) = 1
    /\ EndOf(v, 2) = "HTTPError"
    /\ v.out.kind = "raise"
\* C4: a data-plane request of a wrapped method that got a non-success
\* status (other than a 404 of the GET helper) is followed by exactly one
\* authenticate() and, when that succeeds, exactly one more attempt; this
\* covers the requests a query generator makes.
C4_ErrorStatusRetried ==
  /\ \A v \in Invocations :
       \A i \in Requests(v.log) :
         (/\ v.log[i].status # 200
          /\ ~(v.fn = "_http_get" /\ v.log[i].status = 404)
          /\ Cardinality({j \in Where(v.log, "fn") : j < i}) = 1)
         => (AuthCalls(v) = 1 /\ (Reauthenticated(v) => Attempts(v) = 2))
  /\ \A i \in DOMAIN last.gen.wire : last.gen.wire[i].status = 200

\* the concatenation of the pages' records
RECURSIVE Flatten(_)
Flatten(pages) ==
  IF pages = <<>> THEN <<>> ELSE pages[1].recs \o Flatten(Tail(pages))

ChainEnded(pages) ==
  /\ Len(pages) >= 1
  /\ pages[Len(pages)].next \in {"null", "absent"}
  /\ \A k \in 1..(Len(pages) - 1) : pages[k].next = "url"

\* C5: a generator that ran to its end yielded the concatenation of the
\* pages served, each record once and in order, made one request per page,
\* and ended at the first page without a next-page url.
C5_FullIteration ==
  \A i \in Iters :
    gen[i].pc = "done" =>
      /\ gen[i].yielded = Flatten(gen[i].served)
      /\ \A a, b \in DOMAIN gen[i].yielded :
           gen[i].yielded[a] = gen[i].yielded[b] => a = b
      /\ Len(gen[i].wire) = Len(gen[i].served)
      /\ ChainEnded(gen[i].served)

C5_Witness ==
  \E i \in Iters :
    /\ gen[i].pc = "done"
    /\ Len(gen[i].served) >= 2
    /\ Len(gen[i].served[1].recs) = 2
    /\ Len(gen[i].yielded) >= 3

\* C6: query_one returns the first record of the result set, or None when
\* the result set is empty, and requests no page after the one holding
\* that record: one request when the first page is not empty.
C6_QueryOne ==
  last.op = "query_one" =>
    /\ (last.out.kind = "return" /\ last.out.val = "record") =>
         /\ Flatten(last.gen.served) # <<>>
         /\ last.rec = Flatten(last.gen.served)[1]
         /\ Len(last.gen.wire) = Len(last.gen.served)
         /\ \A k \in 1..(Len(last.gen.served) - 1) : last.gen.served[k].recs = <<>>
         /\ Len(last.gen.served[1].recs) > 0 => Len(last.gen.wire) = 1
    /\ (last.out.kind = "return" /\ last.out.val = None) =>
         /\ Flatten(last.gen.served) = <<>>
         /\ ChainEnded(last.gen.served)
    /\ (/\ \A i \in DOMAIN last.gen.wire : last.gen.wire[i].status = 200
        /\ Flatten(last.gen.served) # <<>>)
       => (last.out.kind = "return" /\ last.out.val = "record")

C6_Witness ==
  /\ last.op = "query_one"
  /\ last.out.kind = "return" /\ last.out.val = "record"
  /\ Len(last.gen.served[1].recs) = 2
  /\ last.gen.served[1].next = "url"
  /\ Len(last.gen.wire) = 1
  /\ last.rec = <<1, 1>>

\* C7: query() itself requests nothing; a generator suspended at a yield
\* has fetched no page beyond the one holding the record it just yielded,
\* and every record of the pages before that one has been yielded.
C7_NoReadAhead ==
  /\ last.op = "query" =>
       /\ gen[last.arg].wire = <<>>
       /\ \A v \in Invocations : Requests(v.log) = {}
  /\ \A i \in Iters :
       /\ gen[i].pc = "created" => gen[i].wire = <<>>
       /\ gen[i].pc = "page" =>
            /\ gen[i].idx >= 1
            /\ Len(gen[i].wire) = Len(gen[i].served)
            /\ gen[i].recs = gen[i].served[Len(gen[i].served)].recs
            /\ gen[i].yielded[Len(gen[i].yielded)] = gen[i].recs[gen[i].idx]
       /\ Len(gen[i].wire) <= Len(gen[i].served) + 1
       /\ Len(gen[i].served) >= 1 =>
            Len(gen[i].yielded) >=
              Len(Flatten(SubSeq(gen[i].served, 1, Len(gen[i].served) - 1)))
       /\ Len(gen[i].wire) > Len(gen[i].served) =>
            gen[i].yielded = Flatten(gen[i].served)

C7_Witness ==
  \E i \in Iters :
    /\ gen[i].pc = "page"
    /\ Len(gen[i].served) = 2
    /\ Len(gen[i].served[1].recs) = 2
    /\ gen[i].served[2].next = "url"
    /\ gen[i].idx = 1 /\ Len(gen[i].recs) = 2

\* C8: insert_records and update_records given more than 200 records, or a
\* list of type names of another length than the records, raise ValueError
\* having called no wrapped method: no request, no authenticate(), no retry.
C8_BatchValidation ==
  (/\ last.op \in {"insert_records", "update_records"}
   /\ \/ last.arg.n > BatchLimit
      \/ (~last.arg.isstr /\ last.arg.tn # last.arg.n))
  => /\ last.out.kind = "raise" /\ last.out.val = "ValueError"
     /\ last.out.by = "body"
     /\ last.calls = <<>>

C8_Witness ==
  /\ last.op = "update_records"
  /\ last.arg.n = BatchLimit + 1
  /\ last.arg.isstr
  /\ last.out.val = "ValueError"

\* C9: call() with a missing or empty urn raises ValueError having made no
\* request of any kind, data plane or token endpoint, and is not retried.
C9_EmptyUrnNoNetwork ==
  (last.op = "call" /\ (last.arg.none \/ Len(last.arg.chars) = 0))
  => /\ last.out.kind = "raise" /\ last.out.val = "ValueError"
     /\ \A v \in Invocations :
          /\ Requests(v.log) = {}
          /\ TokenRequests(v.log) = {}
          /\ AuthCalls(v) = 0
          /\ Attempts(v) = 1

\* C10: when the GET of the record in fetch_record is answered 404, that
\* invocation ends there (no authenticate(), no further attempt) and
\* fetch_record returns None, with the field list given or omitted.
RecordPath == <<"sobjects", "Account", "recid">>
C10_FetchMissing ==
  last.op = "fetch_record" =>
    \A k \in DOMAIN last.calls :
      \A i \in Requests(last.calls[k].log) :
        (last.calls[k].log[i].target = RecordPath /\ last.calls[k].log[i].status = 404)
        => /\ i + 1 = Len(last.calls[k].log)
           /\ last.calls[k].log[i + 1].ev = "end"
           /\ last.calls[k].log[i + 1].what = "return"
           /\ last.calls[k].out.kind = "return" /\ last.calls[k].out.val = None
           /\ k = Len(last.calls)
           /\ last.out.kind = "return" /\ last.out.val = None

C10_Witness ==
  /\ last.op = "fetch_record"
  /\ last.arg.none
  /\ Len(last.calls) = 2
  /\ Attempts(last.calls[2]) = 1
  /\ \E i \in Requests(last.calls[2].log) : last.calls[2].log[i].status = 404
  /\ last.out.kind = "return" /\ last.out.val = None

\* the token endpoint granted a session: 2xx, no error field, both keys
Granted(a) ==
  /\ a.status = 200 /\ ~a.error
  /\ a.access_token # None /\ a.instance_url # None

\* C11: when the token endpoint grants a session to the password
\* authenticator, authenticate() returns without raising, the authenticator
\* reports authenticated, and it holds the granted token and url and a
\* transport handle.
C11_PasswordSuccess ==
  (last.op = "authenticate" /\ auth.kind = "password" /\ Granted(last.arg))
  => /\ last.out.kind = "return"
     /\ is_authenticated(auth)
     /\ auth.access_token = last.arg.access_token
     /\ auth.service_url = last.arg.instance_url
     /\ auth.client # 0

\* C12: the constructor refuses an authenticator that does not report
\* authenticated (it raises and no client exists), and whenever a client
\* exists and is not closed its authenticator reports authenticated,
\* whatever operations ran and however their re-authentications ended.
C12_OpenClientAuthenticated ==
  /\ sfclient = "open" => is_authenticated(auth)
  /\ (last.op = "SFClient" /\ ~is_authenticated(auth))
     => (last.out.kind = "raise" /\ sfclient = "none")
  /\ (last.op = "SFClient" /\ last.out.kind = "return") => sfclient = "open"

C12_Witness ==
  /\ sfclient = "open"
  /\ is_authenticated(auth)
  /\ \E v \in Invocations :
       /\ FirstRaised(v)
       /\ v.out.kind = "raise" /\ v.out.by = "authenticate"
       /\ v.out.val = "KeyError"

\* C13: an authenticator reports authenticated exactly when it holds both
\* an access token and a service url.
C13_AuthenticatedIffSession ==
  is_authenticated(auth) <=> (auth.access_token # None /\ auth.service_url # None)

\* C20: an authenticate() that raises, called by the caller or by the
\* wrapper of a client operation, leaves the authenticated flag, the access
\* token, the service url and the transport handle as they were.
C20_FailedAuthKeepsSession ==
  [][(\/ (last'.op = "authenticate" /\ last'.out.kind = "raise")
      \/ \E k \in DOMAIN last'.calls :
           /\ last'.calls[k].out.kind = "raise"
           /\ last'.calls[k].out.by = "authenticate")
     => auth' = auth]_vars

\* the requests of the attempt whose value or exception the caller got
FinalRequests(v) ==
  {i \in Requests(v.log) : \A j \in Where(v.log, "fn") : j < i}

\* C17: no invocation of a wrapped method returns normally from an attempt
\* one of whose requests got a non-success status, except the 404 of the
\* record GET of fetch_record; and no record is handed out of a query
\* whose last page request got a non-success status.
C17_NoSwallowedFailure ==
  /\ \A v \in Invocations :
       v.out.kind = "return" =>
         \A i \in FinalRequests(v) :
           \/ v.log[i].status = 200
           \/ /\ last.op = "fetch_record"
              /\ v.log[i].target = RecordPath
              /\ v.log[i].status = 404
  /\ (last.out.kind = "return" /\ last.gen.wire # <<>>)
     => last.gen.wire[Len(last.gen.wire)].status = 200

\* C18: an update_record all of whose requests the service accepted made
\* exactly one request, a PATCH, did not authenticate again, and returned
\* (nothing) without raising.
C18_UpdateRecord ==
  (/\ last.op = "update_record"
   /\ sfclient = "open"
   /\ \A v \in Invocations : \A i \in Requests(v.log) : v.log[i].status = 200)
  => /\ last.out.kind = "return"
     /\ Len(last.calls) = 1
     /\ \A v \in Invocations :
          /\ Cardinality(Requests(v.log)) = 1
          /\ \A i \in Requests(v.log) : v.log[i].what = "PATCH"
          /\ AuthCalls(v) = 0
          /\ TokenRequests(v.log) = {}

\* What the last operation shows of a field-list lookup: the cache key it
\* used, whether it sent a describe request, the field names it returned.
LookupOps == {"sobject_field_list", "sobject_field_map"}
KeyOf(l) == IF l.op = "sobject_field_map" THEN lower(l.arg) ELSE l.arg
Described(l) == \E k \in DOMAIN l.calls : Requests(l.calls[k].log) # {}
ListOf(l) ==
  IF l.op = "sobject_field_map" THEN [i \in DOMAIN l.rec |-> l.rec[i].name] ELSE l.rec
\* the (at most maxsize) keys most recently looked up
Retained(rc) == {rc[i] : i \in {j \in DOMAIN rc : j > Len(rc) - maxsize}}

\* C14: the keys of a field map are the lower-cased names of the entries of
\* the field list of the same name, and a lookup of the name just looked
\* up, through sobject_field_list or sobject_field_map in any combination,
\* sends no describe request and returns the same entries.
C14_MapOfList ==
  [][(last'.op \in LookupOps /\ sfclient' = "open" /\ last'.out.kind = "return")
     => /\ last'.op = "sobject_field_map" =>
             /\ \A i \in DOMAIN last'.rec : last'.rec[i].key = lower(last'.rec[i].name)
             /\ \A i \in DOMAIN cache' :
                  cache'[i].key = last'.arg => ListOf(last') = cache'[i].val
        /\ (last.op \in LookupOps /\ last.out.kind = "return" /\ last.arg = last'.arg)
           => (~Described(last') /\ ListOf(last') = ListOf(last))]_vars

\* C15: the cache never holds more than maxsize entries; a lookup sends a
\* describe request exactly when its key is not among the maxsize keys most
\* recently looked up; and the entries held are those of the keys most
\* recently looked up, so that what a full cache evicts is its least
\* recently used entry.
C15_LruEviction ==
  [][/\ Len(cache') <= maxsize
     /\ (last'.op \in LookupOps /\ sfclient' = "open")
        => /\ Described(last') <=> KeyOf(last') \notin Retained(recent)
           /\ {cache'[i].key : i \in DOMAIN cache'} = Retained(recent')]_vars

C15_Witness ==
  /\ sfclient = "open"
  /\ last.op \in LookupOps /\ KeyOf(last) = "account"
  /\ Described(last) /\ last.out.kind = "return"
  /\ lookups.stored = maxsize + 2 /\ lookups.repeated = 1
  /\ Len(cache) = maxsize
  /\ CacheHit(cache, "Account") /\ CacheHit(cache, "order")
  /\ ~CacheHit(cache, "contact")

\* C16: of two successive lookups whose sobject names differ at most in
\* letter case, through sobject_field_list or sobject_field_map in any
\* combination, the second sends no describe request.
C16_KeyLowerCased ==
  [][(/\ last.op \in LookupOps /\ last.out.kind = "return"
      /\ last'.op \in LookupOps /\ sfclient' = "open"
      /\ lower(last.arg) = lower(last'.arg))
     => ~Described(last')]_vars

\* C19: once the client is closed its authenticator no longer reports
\* authenticated and no longer holds the token and the service url, and
\* every operation then run on the client raises, having sent no request
\* and handing out no data.
C19_ClosedClient ==
  sfclient = "closed" =>
    /\ ~is_authenticated(auth)
    /\ auth.access_token = None /\ auth.service_url = None
    /\ last.op # "close" =>
         /\ last.out.kind = "raise"
         /\ last.rec = <<>>
         /\ \A v \in Invocations : Requests(v.log) = {} /\ TokenRequests(v.log) = {}

\* What next() on generator i added to its requests in a step.
Sent(i) ==
  {k \in DOMAIN gen'[i].wire : k > Len(gen[i].wire)}

\* the whole result set of a query of SpecPair
ResultSet == Flatten([p \in 1..MaxPages |-> [recs |-> PageRecs(p, MaxPageLen)]])

\* C21: a next() on one generator leaves every other generator as it was
\* and continues its own from where it stood: what it has yielded is
\* always the leading part of the result set, from the first record of
\* page one, and all of it once it has ended.  Every request the next()
\* sends goes through the transport handle and to the service url that the
\* authenticator holds at that moment, whatever they were when the
\* generator sent its earlier requests.
C21_IndependentIterators ==
  [][\A i \in Pair :
       (last'.op = "next" /\ last'.arg = i) =>
         /\ \A j \in Pair \ {i} : gen'[j] = gen[j]
         /\ auth' = auth
         /\ SubSeq(gen'[i].wire, 1, Len(gen[i].wire)) = gen[i].wire
         /\ \A k \in Sent(i) :
              /\ gen'[i].wire[k].via = auth.client
              /\ gen'[i].wire[k].base = auth.service_url
         /\ gen'[i].yielded = SubSeq(ResultSet, 1, Len(gen'[i].yielded))
         /\ last'.out.kind = "yield" =>
              /\ gen'[i].yielded = Append(gen[i].yielded, last'.rec)
              /\ last'.rec = ResultSet[Len(gen'[i].yielded)]
         /\ gen'[i].pc = "done" => gen'[i].yielded = ResultSet]_vars

\* One generator sent its first page request with the first session and,
\* after a wrapped call re-authenticated while it was suspended, its
\* second with the new one; the other generator, started in between, is
\* suspended in the middle of its first page.
C21_Witness ==
  \E i, j \in Pair :
    /\ i # j
    /\ last.op = "next" /\ last.arg = i
    /\ gen[i].pc = "page" /\ Len(gen[i].wire) = 2
    /\ gen[i].wire[1].via = 1 /\ gen[i].wire[1].base = "urlA"
    /\ gen[i].wire[2].via = 2 /\ gen[i].wire[2].base = "urlB"
    /\ auth.client = 2 /\ auth.service_url = "urlB"
    /\ Len(gen[i].yielded) = MaxPageLen + 1
    /\ gen[j].pc = "page" /\ Len(gen[j].wire) = 1
    /\ gen[j].wire[1].via = 1
    /\ Len(gen[j].yielded) = 1

====
